---- MODULE Spec2Model ----
(***************************************************************************)
(* A model of the Jet / Access database reader: AccessParser (file header, *)
(* page classification, catalog, parseTable) and AccessTable (table        *)
(* definition chain, data-page scan, record decoder), with the DateTime    *)
(* branch of parseType.                                                    *)
(*                                                                         *)
(* The reader is a set of independent stages, each with its own inputs.    *)
(* Every stage has its own specification over its own group of variables;  *)
(* the variables of the other groups stay at their idle values:            *)
(*   SpecHeader   parseFileHeader and the page-size check of construction  *)
(*   SpecDate     parseType, DataType.DateTime                             *)
(*   SpecTdef     getTableColumns / mergeTableData, the TDEF chain         *)
(*   SpecCatalog  linkTablesToData, parseCatalog, parseTableUnformatted    *)
(*   SpecScan     AccessTable.parse, parseRow and AccessParser.parseTable  *)
(***************************************************************************)
EXTENDS Integers, Sequences, FiniteSets, TLC

VARIABLES
    \* ---- file header (AccessParser constructor) ----
    magicOk,        \* ACCESSHEADER.parse accepts the first page
    jetVersion,     \* head.jetVersion, the version code of the file header
    dbLength,       \* dbData.length in bytes
    version,        \* AccessParser.version
    pageSize,       \* AccessParser.pageSize
    ctor,           \* position of the constructor: "new", "header", "pages", "failed"
    \* ---- DateTime decoding ----
    dateIn,         \* the encoded Float64, in seconds (days * 86400)
    dateOut,        \* the decoded timestamp
    dateDone,       \* parseType has returned
    \* ---- table-definition chain (AccessTable.getTableColumns) ----
    tdefIsDef,      \* page number -> the page is in tableDefs (magic 02 01)
    tdefNext,       \* page number -> nextPagePtr of the page's TDEF header
    mergeState,     \* "start", "loading", "merged", "error"
    mergePending,   \* the page number mergeTableData loads next
    mergeSteps,     \* pages loaded by mergeTableData so far
    mergedData,     \* the merged stream, as the pages whose payload it holds
    \* ---- catalog and table lookup (AccessParser) ----
    pgIsTdef,       \* page number -> the page is in tableDefs
    dataOwners,     \* the owner fields of the data pages of the file
    catFields,      \* the parsed catalog has the columns Name, Type, Flags, Id
    catNames,       \* catalog["Name"]
    catTypes,       \* catalog["Type"]
    catFlags,       \* catalog["Flags"]
    catIds,         \* catalog["Id"]
    tablesWithData, \* keys of AccessParser.tablesWithData, as page numbers
    catalog,        \* AccessParser.catalog
    catState,       \* "new", "linked", "ready", "failed"
    callName,       \* the argument of the last parseTable call
    callResult,     \* its outcome
    \* ---- data-page scan (AccessTable.parse, AccessParser.parseTable) ----
    fileSlots,      \* the slots the file was laid out from, one list per linked page
    columns,        \* AccessTable.columns, in key order
    tableHeader,    \* AccessTable.tableHeader
    dataPages,      \* page number -> data page (record offsets and bytes)
    linkedPages,    \* table.linkedPages, as page numbers
    scanState,      \* "scanning", "parsed", "returned", "error"
    pageIdx,        \* position of the outer loop of parse in linkedPages
    slotIdx,        \* position of the inner loop in recordOffsets
    lastOffset,     \* lastOffset of parse; 0 when unset (the code tests !lastOffset)
    parsedTable,    \* AccessTable.parsedTable, fields in insertion order
    slotLog,        \* history: what parse did with each slot it visited
    lines,          \* the rows parseTable returns
    \* ---- column lookup map (AccessTable.getTableColumns) ----
    colDescs,       \* parsedData.column: the descriptors, in file order
    colCount,       \* tableHeader.columnCount
    columnDict,     \* columnDict: key -> position of its descriptor in colDescs
    colState,       \* "parsed", "keyed", "error"
    \* ---- calls on a constructed parser (AccessParser public methods) ----
    apiState,       \* "ready" between calls, "busy" inside parseTable
    apiOut,         \* what the last finished call returned or threw
    firstOut        \* history: table name -> outcome of its first parseTable

hdrVars  == <<magicOk, jetVersion, dbLength, version, pageSize, ctor>>
dateVars == <<dateIn, dateOut, dateDone>>
tdefVars == <<tdefIsDef, tdefNext, mergeState, mergePending, mergeSteps,
              mergedData>>
catVars  == <<pgIsTdef, dataOwners, catFields, catNames, catTypes, catFlags,
              catIds, tablesWithData, catalog, catState, callName, callResult>>
scanVars == <<fileSlots, columns, tableHeader, dataPages, linkedPages,
              scanState, pageIdx, slotIdx, lastOffset, parsedTable, slotLog,
              lines>>
colVars  == <<colDescs, colCount, columnDict, colState>>
apiVars  == <<apiState, apiOut, firstOut>>
vars     == <<hdrVars, dateVars, tdefVars, catVars, scanVars, colVars, apiVars>>

\* ------------------------------------------------------------------------
\* Shared helpers
\* ------------------------------------------------------------------------
Min(a, b) == IF a <= b THEN a ELSE b
Max(a, b) == IF a >= b THEN a ELSE b

\* The % operator of JavaScript: the remainder takes the sign of the dividend.
JsRem(a, b) == IF a >= 0 THEN a % b ELSE -((-a) % b)

\* ------------------------------------------------------------------------
\* File header: AccessParser.parseFileHeader and the length check of
\* categorizePages
\* ------------------------------------------------------------------------
PAGE_SIZE_V3 == 2048
PAGE_SIZE_V4 == 4096
VERSION_3    == 0
VERSION_4    == 1
VERSION_5    == 2
VERSION_2010 == 3
ALL_VERSIONS == {3, 4, 5, 2010}
NEW_VERSIONS == {VERSION_4, VERSION_5, VERSION_2010}

\* Bounds of the header inputs.
MaxJetVersion == 7
MaxHalfPages  == 6

IdleHdrInput ==
    /\ magicOk = FALSE
    /\ jetVersion = 0
    /\ dbLength = 0
    /\ ctor = "idle"

IdleHdr ==
    /\ IdleHdrInput
    /\ version = 3
    /\ pageSize = PAGE_SIZE_V3

InitHeader ==
    /\ magicOk \in BOOLEAN
    /\ jetVersion \in 0..MaxJetVersion
    /\ dbLength \in {k * PAGE_SIZE_V3 : k \in 1..MaxHalfPages}
    /\ version = 3
    /\ pageSize = PAGE_SIZE_V3
    /\ ctor = "new"

\* The version a new-format code selects (index.ts 79-82).
NewVersionOfMutant(code) ==
    IF code = VERSION_4 THEN 4
    ELSE IF code = VERSION_5 THEN 4
    ELSE IF code = VERSION_2010 THEN 2010
    ELSE 3

NewVersionOf(code) ==
    IF code = VERSION_4 THEN 4
    ELSE IF code = VERSION_5 THEN 5
    ELSE IF code = VERSION_2010 THEN 2010
    ELSE 3

parseFileHeader ==
    /\ ctor = "new"
    /\ IF ~magicOk
       THEN /\ ctor' = "failed"
            /\ UNCHANGED <<version, pageSize>>
       ELSE IF jetVersion \in NEW_VERSIONS
       THEN /\ version' = NewVersionOf(jetVersion)
            /\ pageSize' = PAGE_SIZE_V4
            /\ ctor' = "header"
       ELSE IF jetVersion # VERSION_3
       THEN /\ ctor' = "failed"
            /\ UNCHANGED <<version, pageSize>>
       ELSE /\ ctor' = "header"
            /\ UNCHANGED <<version, pageSize>>
    /\ UNCHANGED <<magicOk, jetVersion, dbLength>>

\* categorizePages rejects a buffer that is not a whole number of pages.
categorizePages ==
    /\ ctor = "header"
    /\ ctor' = IF dbLength % pageSize # 0 THEN "failed" ELSE "pages"
    /\ UNCHANGED <<magicOk, jetVersion, dbLength, version, pageSize>>

getVersion == version

\* ------------------------------------------------------------------------
\* parseType, case DataType.DateTime (utils.ts 59-72), host time zone UTC.
\* The encoded Float64 is given in seconds, days = s / 86400, and only
\* multiples of 675 s = 1/128 day are drawn: on these dyadic values every
\* product and remainder of the code is exact in IEEE double arithmetic.
\* ------------------------------------------------------------------------
SecondsPerDay == 24 * 60 * 60

\* Bound of the DateTime inputs, in steps of 1/128 day.
MaxDateSteps == 300

NoDate == [year |-> 0, month |-> 0, day |-> 0,
           hours |-> 0, minutes |-> 0, seconds |-> 0, ms |-> 0]

IdleDate ==
    /\ dateIn = 0
    /\ dateOut = NoDate
    /\ dateDone = FALSE

\* Calendar date of the day n days after 1899-12-30 (the days of 1900 are
\* those of a year that is not a leap year).
MonthLengths1900 == <<31, 28, 31, 30, 31, 30, 31, 31, 30, 31, 30, 31>>

RECURSIVE MonthOf1900(_, _)
MonthOf1900(dayOfYear, m) ==
    IF m = 12 \/ dayOfYear <= MonthLengths1900[m]
    THEN [year |-> 1900, month |-> m, day |-> dayOfYear]
    ELSE MonthOf1900(dayOfYear - MonthLengths1900[m], m + 1)

CivilDate(n) ==
    IF n >= 2 THEN MonthOf1900(n - 1, 1)
    ELSE IF n >= -29 THEN [year |-> 1899, month |-> 12, day |-> 30 + n]
    ELSE [year |-> 1899, month |-> 11, day |-> 60 + n]

\* Date.toISOString of the instant t seconds after 1899-12-30T00:00:00Z.
toISOString(t) ==
    LET date == CivilDate(t \div SecondsPerDay)
        tod  == t % SecondsPerDay
    IN  [year |-> date.year, month |-> date.month, day |-> date.day,
         hours |-> tod \div 3600, minutes |-> (tod % 3600) \div 60,
         seconds |-> tod % 60, ms |-> 0]

\* date.setDate(date.getDate() + daysPassed) then date.setHours(h, m, s) on
\* new Date("1899-12-30T12:00:00Z"): setDate keeps the time of day, setHours
\* replaces it.
DateTimeInstantMutant(daysPassed, hours, minutes, seconds) ==
    daysPassed * SecondsPerDay + 12 * 3600
        + hours * 3600 + minutes * 60 + seconds

DateTimeInstant(daysPassed, hours, minutes, seconds) ==
    daysPassed * SecondsPerDay + hours * 3600 + minutes * 60 + seconds

parseDateTime(s) ==
    LET daysPassed         == s \div SecondsPerDay
        hoursPassedDecimal == JsRem(s, SecondsPerDay)
        hours   == (hoursPassedDecimal * 24) \div SecondsPerDay
        minRem  == JsRem(hoursPassedDecimal * 24, SecondsPerDay)
        minutes == (minRem * 60) \div SecondsPerDay
        secRem  == JsRem(minRem * 60, SecondsPerDay)
        seconds == (secRem * 60) \div SecondsPerDay
    IN  toISOString(DateTimeInstant(daysPassed, hours, minutes, seconds))

InitDate ==
    /\ dateIn \in {k * 675 : k \in -MaxDateSteps..MaxDateSteps}
    /\ dateOut = NoDate
    /\ dateDone = FALSE

parseTypeDateTime ==
    /\ ~dateDone
    /\ dateOut' = parseDateTime(dateIn)
    /\ dateDone' = TRUE
    /\ UNCHANGED dateIn

\* ------------------------------------------------------------------------
\* Table-definition chain: AccessTable.getTableColumns (index.ts 237-245)
\* and mergeTableData (274-284).  The file has the pages 0..FilePages-1,
\* page 0 is the file header, page TdefRoot is the table's first TDEF page.
\* A page's payload is named by its page number, so mergedData lists the
\* pages whose payloads were concatenated, in order.
\* ------------------------------------------------------------------------
FilePages == 4
TdefRoot  == 1

\* Cap of the step counter: twice the number of pages.
MaxMergeSteps == 2 * FilePages

IdleTdef ==
    /\ tdefIsDef = <<>>
    /\ tdefNext = <<>>
    /\ mergeState = "idle"
    /\ mergePending = 0
    /\ mergeSteps = 0
    /\ mergedData = <<>>

InitTdef ==
    /\ tdefIsDef \in [1..(FilePages - 1) -> BOOLEAN]
    /\ tdefIsDef[TdefRoot]
    /\ tdefNext \in [1..(FilePages - 1) -> 0..FilePages]
    /\ mergeState = "start"
    /\ mergePending = 0
    /\ mergeSteps = 0
    /\ mergedData = <<>>

\* this.tableDefs[page * pageSize] is defined
InTableDefs(page) == page \in DOMAIN tdefIsDef /\ tdefIsDef[page]

\* getTableColumns up to the call of mergeTableData: the root payload, and
\* the continuation pointer of the root header.
getTableColumnsStart ==
    /\ mergeState = "start"
    /\ mergedData' = <<TdefRoot>>
    /\ IF tdefNext[TdefRoot] # 0
       THEN /\ mergeState' = "loading"
            /\ mergePending' = tdefNext[TdefRoot]
       ELSE /\ mergeState' = "merged"
            /\ UNCHANGED mergePending
    /\ UNCHANGED <<tdefIsDef, tdefNext, mergeSteps>>

\* One page load of mergeTableData: the first page (275-277) or one turn of
\* the while loop (278-282).  A pointer to a page that is not a TDEF page
\* makes TDEF_HEADER.parse throw, which getTableColumns reports as an error.
mergeTableDataLoad ==
    /\ mergeState = "loading"
    /\ mergeSteps < MaxMergeSteps
    /\ IF ~InTableDefs(mergePending)
       THEN /\ mergeState' = "error"
            /\ UNCHANGED <<mergePending, mergeSteps, mergedData>>
       ELSE /\ mergedData' = Append(mergedData, mergePending)
            /\ mergeSteps' = mergeSteps + 1
            /\ IF tdefNext[mergePending] # 0
               THEN /\ mergePending' = tdefNext[mergePending]
                    /\ UNCHANGED mergeState
               ELSE /\ mergeState' = "merged"
                    /\ UNCHANGED mergePending
    /\ UNCHANGED <<tdefIsDef, tdefNext>>

\* ------------------------------------------------------------------------
\* The column lookup map: the end of getTableColumns (index.ts 254-272).
\* A descriptor is its columnIndex and columnID; columnDict maps a key to the
\* position of the descriptor stored under it.
\* ------------------------------------------------------------------------
\* Bounds of the descriptors.
MaxColumns   == 2
MaxColumnKey == 2

ColumnDescs == [columnIndex : 0..MaxColumnKey, columnID : 0..MaxColumnKey]

IdleCols ==
    /\ colDescs = <<>>
    /\ colCount = 0
    /\ columnDict = <<>>
    /\ colState = "idle"

InitCols ==
    /\ colDescs \in UNION {[1..k -> ColumnDescs] : k \in 0..MaxColumns}
    \* parseTableData is handed columnCount and returns that many descriptors
    /\ colCount = Len(colDescs)
    /\ columnDict = <<>>
    /\ colState = "parsed"

\* Math.min(...columns.map((c) => c.columnIndex)); unused when there is no
\* descriptor
MinColumnIndex(cols) ==
    IF cols = <<>> THEN 0
    ELSE CHOOSE m \in {cols[i].columnIndex : i \in DOMAIN cols} :
             \A i \in DOMAIN cols : m <= cols[i].columnIndex

\* for (const x of columns) dict[key of x] = x, on a dict that keeps the
\* entries it already has; keys[i] is the key of the i-th descriptor, and
\* the last descriptor written under a key stays
AssignAll(dict, keys) ==
    LET written == {keys[i] : i \in DOMAIN keys}
    IN  [key \in DOMAIN dict \cup written |->
            IF key \in written
            THEN CHOOSE i \in DOMAIN keys :
                     /\ keys[i] = key
                     /\ \A j \in DOMAIN keys : keys[j] = key => j <= i
            ELSE dict[key]]

KeyedByIndex(cols) ==
    LET offset == MinColumnIndex(cols)
    IN  AssignAll(<<>>, [i \in DOMAIN cols |-> cols[i].columnIndex - offset])

\* The second loop writes into the map the first loop filled
KeyedByIdAfter(dict, cols) ==
    AssignAll(dict, [i \in DOMAIN cols |-> cols[i].columnID])

KeyCount(dict) == Cardinality(DOMAIN dict)

ColumnDictOf(cols) ==
    LET byIndex == KeyedByIndex(cols)
    IN  IF KeyCount(byIndex) # Len(cols) THEN KeyedByIdAfter(byIndex, cols)
        ELSE byIndex

getTableColumnsKeying ==
    /\ colState = "parsed"
    /\ LET dict == ColumnDictOf(colDescs)
       IN  /\ columnDict' = dict
           /\ colState' = IF KeyCount(dict) # colCount THEN "error" ELSE "keyed"
    /\ UNCHANGED <<colDescs, colCount>>

\* ------------------------------------------------------------------------
\* Catalog and table lookup: linkTablesToData (index.ts 90-117),
\* parseCatalog (118-152), parseTableUnformatted (153-177), getTables.
\* Pages are named by their page number; the code keys its maps by the byte
\* offset page * pageSize, which is one-to-one with the page number.
\* The columns Name, Type, Flags, Id are what accessTable.parse() returned
\* for the catalog table at page 2.
\* ------------------------------------------------------------------------
\* The flag values are signed 32-bit integers; 0x80000000, which the code
\* also lists, is outside that range and outside the integers of the checker.
SYSTEM_TABLE_FLAGS == {-2147483647 - 1, -2, 2}
CatalogPage == 2

\* Bounds of the catalog inputs.
MaxCatalogEntries == 2
MaxTablePage      == 4

\* A Name cell: a string, or a value that is not a string (null).
StrName(x) == [str |-> TRUE, v |-> x]
NullName   == [str |-> FALSE, v |-> ""]

CatNameValues == {StrName("A"), StrName("B"), NullName}
CatTypeFlags  == {<<1, 0>>, <<1, 2>>, <<5, 0>>}
TablePages    == CatalogPage..MaxTablePage
\* Ids an entry may carry: the first and the last page after the catalog's.
CatIdValues   == {CatalogPage + 1, MaxTablePage}
CatEntries    == [name : CatNameValues, tf : CatTypeFlags, id : CatIdValues]
CallNames     == {"A", "B", "C"}

SeqsUpTo(S, n) == UNION {[1..k -> S] : k \in 0..n}

IdleCat ==
    /\ pgIsTdef = <<>>
    /\ dataOwners = {}
    /\ catFields = FALSE
    /\ catNames = <<>>
    /\ catTypes = <<>>
    /\ catFlags = <<>>
    /\ catIds = <<>>
    /\ tablesWithData = {}
    /\ catalog = <<>>
    /\ catState = "idle"
    /\ callName = ""
    /\ callResult = "none"

InitCat ==
    /\ pgIsTdef \in [TablePages -> BOOLEAN]
    /\ pgIsTdef[CatalogPage]
    /\ dataOwners \in SUBSET TablePages
    \* a data page whose owner is not a TDEF page: on the last page only
    /\ \A o \in dataOwners : pgIsTdef[o] \/ o = MaxTablePage
    /\ \E entries \in SeqsUpTo(CatEntries, MaxCatalogEntries) :
         /\ catNames = [k \in DOMAIN entries |-> entries[k].name]
         /\ catTypes = [k \in DOMAIN entries |-> entries[k].tf[1]]
         /\ catFlags = [k \in DOMAIN entries |-> entries[k].tf[2]]
         /\ catIds   = [k \in DOMAIN entries |-> entries[k].id]
         /\ catFields \in (IF entries = <<>> THEN BOOLEAN ELSE {TRUE})
    /\ tablesWithData = {}
    /\ catalog = <<>>
    /\ catState = "new"
    /\ callName = ""
    /\ callResult = "none"

\* linkTablesToData: a TableObject for every TDEF page that some data page
\* names as its owner.
LinkedTablesMutant == {o \in TablePages : pgIsTdef[o]}

LinkedTables == {o \in dataOwners : o \in DOMAIN pgIsTdef /\ pgIsTdef[o]}

linkTablesToData ==
    /\ catState = "new"
    /\ tablesWithData' = LinkedTables
    /\ catState' = "linked"
    /\ UNCHANGED <<pgIsTdef, dataOwners, catFields, catNames, catTypes,
                   catFlags, catIds, catalog, callName, callResult>>

\* The loop of parseCatalog (141-150): pos walks over names, i is the index
\* used for types, flags and ids; i advances only on a string name.
RECURSIVE CatalogLoop(_, _, _)
CatalogLoop(pos, i, tablesMapping) ==
    IF pos > Len(catNames) THEN tablesMapping
    ELSE IF ~catNames[pos].str THEN CatalogLoop(pos + 1, i, tablesMapping)
    ELSE LET j == i + 1
             tableName == catNames[pos].v
         IN  IF /\ catTypes[j] = 1
                /\ catFlags[j] \notin SYSTEM_TABLE_FLAGS
                /\ catFlags[j] = 0
             THEN CatalogLoop(pos + 1, j,
                    [n \in DOMAIN tablesMapping \cup {tableName} |->
                        IF n = tableName THEN catIds[j] ELSE tablesMapping[n]])
             ELSE CatalogLoop(pos + 1, j, tablesMapping)

\* parseCatalog: without a TableObject at page 2 the AccessTable constructor
\* throws; without the four columns parseCatalog throws.
parseCatalog ==
    /\ catState = "linked"
    /\ IF CatalogPage \notin tablesWithData \/ ~catFields
       THEN /\ catState' = "failed"
            /\ UNCHANGED catalog
       ELSE /\ catState' = "ready"
            /\ catalog' = CatalogLoop(1, 0, <<>>)
    /\ UNCHANGED <<pgIsTdef, dataOwners, catFields, catNames, catTypes,
                   catFlags, catIds, tablesWithData, callName, callResult>>

getTables == DOMAIN catalog

\* parseTableUnformatted up to the construction of the AccessTable; "Parsed"
\* stands for the return of accessTable.parse(), which SpecScan models.
TableLookupMutant(tableName) ==
    IF tableName \notin DOMAIN catalog THEN "UnknownTable"
    ELSE IF catalog[tableName] \notin tablesWithData THEN "MissingTdef"
    ELSE "Parsed"

TableLookup(tableName) ==
    IF tableName \notin DOMAIN catalog THEN "UnknownTable"
    ELSE LET tableOffset == catalog[tableName]
         IN  IF tableOffset \notin tablesWithData
             THEN IF ~(tableOffset \in DOMAIN pgIsTdef /\ pgIsTdef[tableOffset])
                  THEN "MissingTdef"
                  ELSE "EmptyTable"
             ELSE "Parsed"

parseTableUnformatted ==
    /\ catState = "ready"
    /\ \E tableName \in CallNames :
         /\ callName' = tableName
         /\ callResult' = TableLookup(tableName)
    /\ UNCHANGED <<pgIsTdef, dataOwners, catFields, catNames, catTypes,
                   catFlags, catIds, tablesWithData, catalog, catState>>

\* ------------------------------------------------------------------------
\* Byte sequences: Uint8Array operations.  Indices of the code are 0-based.
\* ------------------------------------------------------------------------
\* Uint8Array.prototype.slice(start, end)
Slice(b, start, end) ==
    LET len  == Len(b)
        from == IF start < 0 THEN Max(len + start, 0) ELSE Min(start, len)
        to   == IF end < 0 THEN Max(len + end, 0) ELSE Min(end, len)
    IN  SubSeq(b, from + 1, to)

SliceFrom(b, start) == Slice(b, start, Len(b))

Reverse(b) == [k \in 1..Len(b) |-> b[Len(b) + 1 - k]]

\* Uint8Array.prototype.indexOf(v): the first 0-based index, or -1
IndexOf(b, v) ==
    IF \E k \in 1..Len(b) : b[k] = v
    THEN (CHOOSE k \in 1..Len(b) : b[k] = v /\ \A j \in 1..(k - 1) : b[j] # v) - 1
    ELSE -1

\* (x & mask) !== 0 for a mask with a single bit set
HasBit(x, mask) == (x \div mask) % 2 = 1

\* x & 0xfff
Low12(x) == x % 4096

\* ------------------------------------------------------------------------
\* Decoded values: parseType for the column types of the modelled tables
\* (utils.ts 24-98).  A decoded text is named by its encoding and bytes; the
\* empty string is one value whatever the encoding.
\* ------------------------------------------------------------------------
TypeInt8 == 2
TypeText == 10

Null        == [tag |-> "null", n |-> 0, b |-> <<>>]
Undefined   == [tag |-> "undefined", n |-> 0, b |-> <<>>]
EmptyString == [tag |-> "string", n |-> 0, b |-> <<>>]
IntValue(n) == [tag |-> "number", n |-> n, b |-> <<>>]
Decoded(encoding, b) ==
    IF b = <<>> THEN EmptyString ELSE [tag |-> encoding, n |-> 0, b |-> b]

\* The buffer is not empty where the code calls parseType with an Int8.
parseType(dataType, buffer, ver) ==
    IF dataType = TypeInt8
    THEN IntValue(IF buffer[1] >= 128 THEN buffer[1] - 256 ELSE buffer[1])
    ELSE IF dataType = TypeText
    THEN IF ver > 3
         THEN IF /\ Len(buffer) >= 2
                 /\ \/ buffer[1] = 254 /\ buffer[2] = 255
                    \/ buffer[1] = 255 /\ buffer[2] = 254
              THEN Decoded("windows-1252", SliceFrom(buffer, 2))
              ELSE Decoded("utf-16le", buffer)
         ELSE Decoded("utf-8", buffer)
    ELSE EmptyString

\* ------------------------------------------------------------------------
\* Columns of the scanned tables: a fixed-length Int8 and a variable-length
\* Text; in the second layout the columnIDs are not the positions.
\* ------------------------------------------------------------------------
Column(name, type, fixed, fixedOffset, id) ==
    [colNameStr |-> name, type |-> type, fixedLength |-> fixed,
     fixedOffset |-> fixedOffset, columnID |-> id]

HeaderOf(cols) ==
    [columnCount |-> Len(cols),
     variableColumns |-> Cardinality({k \in DOMAIN cols : ~cols[k].fixedLength})]

\* ------------------------------------------------------------------------
\* Records of the input file.  Jet 3: prefix byte, the Int8, the text,
\* varLenCount, the field offset, the field count, the null bitmap.  Jet 4:
\* the same with a 2-byte prefix and 2-byte little-endian metadata fields.
\* mask is the bitmap byte; count, off and vlc are the metadata fields, which
\* a damaged record has wrong.
\* ------------------------------------------------------------------------
RecordV3(text, vlc, off, count, mask) ==
    <<2, 5>> \o text \o <<vlc, off, count, mask>>

RecordV4(text, vlc, off, count, mask) ==
    <<2, 0, 5>> \o text \o <<vlc, 0, off, 0, count, 0, mask>>

WellFormedV3(mask) == RecordV3(<<97>>, 3, 2, 1, mask)
WellFormedV4(mask) == RecordV4(<<97, 0>>, 5, 3, 1, mask)

\* Every bitmap on a well-formed record
MaskedRecords(ver) ==
    {IF ver = 3 THEN WellFormedV3(mask) ELSE WellFormedV4(mask) : mask \in 0..3}

\* Records with a wrong field count, field offset or varLenCount, and one
\* with an empty text
DamagedRecords(ver) ==
    IF ver = 3
    THEN {RecordV3(<<97>>, 3, off, count, 0) : off \in {1, 2}, count \in {0, 2}}
            \cup {RecordV3(<<97>>, 1, 2, 2, 0), RecordV3(<<>>, 2, 2, 1, 0)}
    ELSE {RecordV4(<<97, 0>>, 5, 3, count, 0) : count \in {0, 2}}
            \cup {RecordV4(<<>>, 3, 3, 1, 0)}

\* The tables scanned: version, columns, and the live records of the file.
\* The damaged records are drawn for the first layout.
LayoutA == << Column("A", TypeInt8, TRUE, 0, 0), Column("B", TypeText, FALSE, 0, 1) >>
LayoutB == << Column("A", TypeInt8, TRUE, 0, 1), Column("B", TypeText, FALSE, 0, 0) >>

TableConfigs ==
    {[ver |-> v, cols |-> LayoutA,
      recs |-> MaskedRecords(v) \cup DamagedRecords(v)] : v \in {3, 4}}
        \cup {[ver |-> v, cols |-> LayoutB, recs |-> MaskedRecords(v)] : v \in {3, 4}}

\* A slot of a data page: a live record, a deleted record, a pointer to a
\* record on the overflow page (whose own slot carries the flag 0x8000 or
\* not), or a pointer to a page that is not a data page.
SlotKinds == {"live", "deleted", "overflow", "overflowFlagged", "dangling"}

SlotSpecs(cfg) ==
    [kind : {"live"}, rec : cfg.recs]
        \cup [kind : SlotKinds \ {"live"},
              rec : {IF cfg.ver = 3 THEN WellFormedV3(0) ELSE WellFormedV4(0)}]

\* Bounds of the scanned file.
MaxSlots       == 2
MaxLinkedPages == 2

FirstLinkedPage == 3
OverflowPage    == FirstLinkedPage + MaxLinkedPages
DanglingPage    == OverflowPage + 1
\* A data page without records, and a slot index no page reaches
EmptyDataPage   == DanglingPage + 1
FarSlot         == 255

\* Two more pointers: to slot 0 of the data page without records, and to
\* the slot FarSlot of the overflow page.
StrayKinds == {"emptyPage", "farSlot"}

IsPointerKind(kind) ==
    kind \in {"overflow", "overflowFlagged", "dangling"} \cup StrayKinds
IsOverflowKind(kind) == kind \in {"overflow", "overflowFlagged"}

\* Little-endian bytes of a 32-bit record pointer (page << 8 | slot)
PointerBytes(page, slot) == <<slot, page % 256, page \div 256, 0>>

\* The overflow slots of a list of slots, in order
RECURSIVE OverflowSlots(_)
OverflowSlots(slots) ==
    IF slots = <<>> THEN <<>>
    ELSE IF IsOverflowKind(Head(slots).kind)
         THEN <<Head(slots)>> \o OverflowSlots(Tail(slots))
         ELSE OverflowSlots(Tail(slots))

\* A data page is its record offsets and the bytes at its end; the bytes
\* before them read as 0.  LayOut places the data of the slots downwards
\* from the page end; ovf is the number of overflow records placed so far.
RECURSIVE LayOut(_, _, _, _, _)
LayOut(slots, size, ovf, offsets, tail) ==
    IF slots = <<>> THEN [offsets |-> offsets, tail |-> tail]
    ELSE LET slot == Head(slots)
             data == IF IsOverflowKind(slot.kind) THEN PointerBytes(OverflowPage, ovf)
                     ELSE IF slot.kind = "dangling" THEN PointerBytes(DanglingPage, 0)
                     ELSE IF slot.kind = "emptyPage" THEN PointerBytes(EmptyDataPage, 0)
                     ELSE IF slot.kind = "farSlot" THEN PointerBytes(OverflowPage, FarSlot)
                     ELSE slot.rec
             flag == IF slot.kind = "deleted" THEN 32768
                     ELSE IF IsPointerKind(slot.kind) THEN 16384
                     ELSE 0
             at   == size - Len(tail) - Len(data)
         IN  LayOut(Tail(slots), size,
                    IF IsOverflowKind(slot.kind) THEN ovf + 1 ELSE ovf,
                    Append(offsets, at + flag), data \o tail)

RECURSIVE LayOutOverflow(_, _, _, _)
LayOutOverflow(slots, size, offsets, tail) ==
    IF slots = <<>> THEN [offsets |-> offsets, tail |-> tail]
    ELSE LET slot == Head(slots)
             at   == size - Len(tail) - Len(slot.rec)
             flag == IF slot.kind = "overflowFlagged" THEN 32768 ELSE 0
         IN  LayOutOverflow(Tail(slots), size, Append(offsets, at + flag),
                            slot.rec \o tail)

RECURSIVE Flatten(_)
Flatten(ss) == IF ss = <<>> THEN <<>> ELSE Head(ss) \o Flatten(Tail(ss))

\* The data pages of the file laid out from the slot lists pages[1..]
FilePagesOf(pages, size) ==
    [n \in {FirstLinkedPage + k - 1 : k \in DOMAIN pages} \cup {OverflowPage} |->
        IF n = OverflowPage
        THEN LayOutOverflow(OverflowSlots(Flatten(pages)), size, <<>>, <<>>)
        ELSE LET k == n - FirstLinkedPage + 1
             IN  LayOut(pages[k], size,
                        Len(OverflowSlots(Flatten(SubSeq(pages, 1, k - 1)))),
                        <<>>, <<>>)]

\* All ways to cut a list of slots into MaxLinkedPages consecutive pages
Cuts(slots) ==
    {c \in [0..MaxLinkedPages -> 0..Len(slots)] :
        /\ c[0] = 0
        /\ c[MaxLinkedPages] = Len(slots)
        /\ \A k \in 1..MaxLinkedPages : c[k - 1] <= c[k]}

CutPages(slots, c) ==
    [k \in 1..MaxLinkedPages |-> SubSeq(slots, c[k - 1] + 1, c[k])]

\* originalData.slice(start, end) on a page
PageByte(page, size, at) ==
    IF at >= size - Len(page.tail) THEN page.tail[at - (size - Len(page.tail)) + 1]
    ELSE 0

PageSlice(page, size, start, end) ==
    LET from == Min(Max(start, 0), size)
        to   == Min(Max(end, 0), size)
    IN  [k \in 1..(to - from) |-> PageByte(page, size, from + k - 1)]

\* ------------------------------------------------------------------------
\* parseRelativeObjectMetadataStruct: the variable-length metadata read from
\* the reversed record.  Jet 3: field count, jump table, one offset per
\* field, varLenCount, one byte each.  Jet 4: a one-byte field count, then
\* the offsets and varLenCount as two bytes each, high byte first in the
\* reversed record.  ok is FALSE where the parser throws on a short buffer.
\* ------------------------------------------------------------------------
NoMetadata ==
    [ok |-> FALSE, variableLengthFieldCount |-> 0,
     variableLengthJumpTable |-> <<>>, variableLengthFieldOffsets |-> <<>>,
     varLenCount |-> 0, relativeMetadataEnd |-> 0]

parseRelativeObjectMetadataStruct(rev, jumpCount, ver) ==
    IF Len(rev) < 1 THEN NoMetadata
    ELSE LET count == rev[1] IN
         IF ver = 3
         THEN IF Len(rev) < 2 + jumpCount + count THEN NoMetadata
              ELSE [ok |-> TRUE, variableLengthFieldCount |-> count,
                    variableLengthJumpTable |-> SubSeq(rev, 2, 1 + jumpCount),
                    variableLengthFieldOffsets |->
                        SubSeq(rev, 2 + jumpCount, 1 + jumpCount + count),
                    varLenCount |-> rev[2 + jumpCount + count],
                    relativeMetadataEnd |-> 2 + jumpCount + count]
         ELSE IF Len(rev) < 3 + 2 * count THEN NoMetadata
              ELSE [ok |-> TRUE, variableLengthFieldCount |-> count,
                    variableLengthJumpTable |-> <<>>,
                    variableLengthFieldOffsets |->
                        [k \in 1..count |-> rev[2 * k] * 256 + rev[2 * k + 1]],
                    varLenCount |-> rev[2 + 2 * count] * 256 + rev[3 + 2 * count],
                    relativeMetadataEnd |-> 3 + 2 * count]

\* ------------------------------------------------------------------------
\* The record decoder: AccessTable.parseRow and what it calls.
\* ------------------------------------------------------------------------
\* this.parsedTable[colName].push(v), creating the field when it is missing
Push(table, colName, v) ==
    IF \E k \in DOMAIN table : table[k].name = colName
    THEN [k \in DOMAIN table |->
            IF table[k].name = colName
            THEN [name |-> colName, vals |-> Append(table[k].vals, v)]
            ELSE table[k]]
    ELSE Append(table, [name |-> colName, vals |-> <<v>>])

\* nullTable of parseRow (511-516): one entry per bit of the trailing bytes
NullTableOf(nullTableBuffer) ==
    [i \in 1..(8 * Len(nullTableBuffer)) |->
        HasBit(nullTableBuffer[((i - 1) \div 8) + 1], 2 ^ ((i - 1) % 8))]

\* The test of the bitmap that makes a column null (328, 447)
IsNullColumn(column, nullTable) ==
    column.columnID < Len(nullTable) /\ nullTable[column.columnID + 1]

\* parseFixedLengthData; err is TRUE where it throws
parseFixedLengthData(record, column, nullTable, table, ver) ==
    IF column.columnID >= Len(nullTable) THEN [err |-> TRUE, table |-> table]
    ELSE IF IsNullColumn(column, nullTable)
    THEN [err |-> FALSE, table |-> Push(table, column.colNameStr, Null)]
    ELSE IF column.fixedOffset >= Len(record) THEN [err |-> TRUE, table |-> table]
    ELSE [err |-> FALSE,
          table |-> Push(table, column.colNameStr,
                         parseType(column.type,
                                   SliceFrom(record, column.fixedOffset), ver))]

\* The loop of parseRow over this.columns (525-532), from column k on
RECURSIVE FixedPass(_, _, _, _, _, _)
FixedPass(cols, k, record, nullTable, table, ver) ==
    IF k > Len(cols) THEN [err |-> FALSE, table |-> table]
    ELSE IF ~cols[k].fixedLength
    THEN FixedPass(cols, k + 1, record, nullTable, table, ver)
    ELSE LET r == parseFixedLengthData(record, cols[k], nullTable, table, ver)
         IN  IF r.err THEN r
             ELSE FixedPass(cols, k + 1, record, nullTable, r.table, ver)

\* The recovery test of parseDynamicLengthRecordsMetadata (383)
RecoveryApplies(metadataStart) == metadataStart # 1 /\ metadataStart < 10

\* parseDynamicLengthRecordsMetadata: kind is "metadata", "undefined" (the
\* row is dropped) or "throw"
parseDynamicLengthRecordsMetadata(reverseRecord, originalRecord, nullTableLength, header, ver) ==
    IF ver > 3
    THEN LET r1 == SliceFrom(reverseRecord, nullTableLength + 1)
             r2 == IF Len(r1) > 1 /\ r1[1] = 0 THEN SliceFrom(r1, 1) ELSE r1
             m  == parseRelativeObjectMetadataStruct(r2, 0, ver)
         IN  [kind |-> IF m.ok THEN "metadata" ELSE "throw", meta |-> m]
    ELSE LET variableLengthJumpTableCNT == (Len(originalRecord) - 1) \div 256
             r1 == SliceFrom(reverseRecord, nullTableLength)
             m  == parseRelativeObjectMetadataStruct(r1,
                       variableLengthJumpTableCNT, ver)
         IN  IF ~m.ok THEN [kind |-> "throw", meta |-> m]
             ELSE IF m.variableLengthFieldCount # header.variableColumns
             THEN LET metadataStart == IndexOf(r1, header.variableColumns % 256)
                  IN  IF RecoveryApplies(metadataStart)
                      THEN LET m2 == parseRelativeObjectMetadataStruct(
                                         SliceFrom(r1, metadataStart),
                                         variableLengthJumpTableCNT, ver)
                           IN  IF ~m2.ok THEN [kind |-> "throw", meta |-> m2]
                               ELSE [kind |-> "metadata",
                                     meta |-> [m2 EXCEPT !.relativeMetadataEnd =
                                                  @ + metadataStart]]
                      ELSE [kind |-> "undefined", meta |-> m]
             ELSE [kind |-> "metadata",
                   meta |-> [m EXCEPT !.relativeMetadataEnd = @ + nullTableLength]]

\* parseDynamicLengthData, from the variable-length column k on; i is the
\* field index of the code (0-based).  None of the modelled columns is a
\* Memo, so the value is decoded by parseType.
RECURSIVE DynamicPass(_, _, _, _, _, _, _, _)
DynamicPass(varCols, k, jumpTableAddition, originalRecord, meta, nullTable, table, ver) ==
    IF k > Len(varCols) THEN table
    ELSE
    LET column  == varCols[k]
        i       == k - 1
        offsets == meta.variableLengthFieldOffsets
    IN  IF IsNullColumn(column, nullTable)
        THEN DynamicPass(varCols, k + 1, jumpTableAddition, originalRecord,
                         meta, nullTable,
                         Push(table, column.colNameStr, Null), ver)
        ELSE
        LET jta == IF /\ ver = 3
                      /\ \E j \in DOMAIN meta.variableLengthJumpTable :
                             meta.variableLengthJumpTable[j] = i
                   THEN jumpTableAddition + 256
                   ELSE jumpTableAddition
        IN  IF i >= Len(offsets)
            \* relStart and relEnd are both undefined, hence equal
            THEN DynamicPass(varCols, k + 1, jta, originalRecord, meta,
                             nullTable,
                             Push(table, column.colNameStr, EmptyString), ver)
            ELSE
            LET start0   == offsets[i + 1]
                end0     == IF i + 1 = Len(offsets) THEN meta.varLenCount
                            ELSE offsets[i + 2]
                relEnd   == IF ver > 3 /\ end0 > Len(originalRecord)
                            THEN end0 % 256 ELSE end0
                relStart == IF ver > 3 /\ start0 > Len(originalRecord)
                            THEN start0 % 256 ELSE start0
                value    == IF relStart = relEnd THEN EmptyString
                            ELSE parseType(column.type,
                                     Slice(originalRecord, relStart + jta,
                                           relEnd + jta), ver)
            IN  DynamicPass(varCols, k + 1, jta, originalRecord, meta,
                            nullTable,
                            Push(table, column.colNameStr, value), ver)

\* The variable-length columns, in key order (relativeRecordsColumnMap)
RECURSIVE VariableColumns(_)
VariableColumns(cols) ==
    IF cols = <<>> THEN <<>>
    ELSE IF Head(cols).fixedLength THEN VariableColumns(Tail(cols))
         ELSE <<Head(cols)>> \o VariableColumns(Tail(cols))

\* parseRow: outcome "row" when every column got its value, "dropped" when
\* the metadata did not parse and parseRow returned early, "error" when it
\* threw; table is parsedTable afterwards.
parseRow(record, table, cols, header, ver) ==
    LET nullTableLen == (header.columnCount + 7) \div 8 IN
    IF ~(nullTableLen # 0 /\ nullTableLen < Len(record))
    THEN [outcome |-> "error", table |-> table]
    ELSE
    LET nullTable == NullTableOf(SliceFrom(record, Len(record) - nullTableLen))
        stripped  == SliceFrom(record, IF ver > 3 THEN 2 ELSE 1)
        fixed     == FixedPass(cols, 1, stripped, nullTable, table, ver)
    IN  IF fixed.err THEN [outcome |-> "error", table |-> table]
        ELSE
        LET md == parseDynamicLengthRecordsMetadata(Reverse(record), record,
                                                    nullTableLen, header, ver)
        IN  IF md.kind = "throw" THEN [outcome |-> "error", table |-> table]
            ELSE IF md.kind = "undefined"
            THEN [outcome |-> "dropped", table |-> fixed.table]
            ELSE [outcome |-> "row",
                  table |-> DynamicPass(VariableColumns(cols), 1, 0, record,
                                        md.meta, nullTable, fixed.table, ver)]

\* ------------------------------------------------------------------------
\* getOverflowRecord (294-313).  A slot index equal to the number of offsets
\* passes the length test; its offset is then undefined, which slice reads
\* as 0.
\* ------------------------------------------------------------------------
IsDataPage(pageNum) == pageNum \in DOMAIN dataPages

OverflowPageOfMutant(recordPointer) == recordPointer % 256

OverflowPageOf(recordPointer) == recordPointer \div 256

getOverflowRecord(recordPointer) ==
    LET recordOffset == recordPointer % 256
        pageNum      == OverflowPageOf(recordPointer)
    IN  IF ~IsDataPage(pageNum) THEN [found |-> FALSE, rec |-> <<>>]
        ELSE
        LET recordPage == dataPages[pageNum]
            offsets    == recordPage.offsets
        IN  IF recordOffset > Len(offsets) THEN [found |-> FALSE, rec |-> <<>>]
            ELSE
            LET raw   == IF recordOffset < Len(offsets)
                         THEN offsets[recordOffset + 1] ELSE 0
                start == IF HasBit(raw, 32768) THEN Low12(raw) ELSE raw
            IN  IF recordOffset = 0
                THEN [found |-> TRUE,
                      rec |-> PageSlice(recordPage, pageSize, start, pageSize)]
                ELSE LET rawEnd == offsets[recordOffset]
                         end    == IF HasBit(rawEnd, 32768) THEN Low12(rawEnd)
                                   ELSE rawEnd
                     IN  [found |-> TRUE,
                          rec |-> PageSlice(recordPage, pageSize, start, end)]

\* ------------------------------------------------------------------------
\* AccessTable.parse (548-584), one action per slot, and the conversion of
\* AccessParser.parseTable (178-194).  table.linkedPages is always an array,
\* so the createEmptyTable branch of parse is never taken.
\* ------------------------------------------------------------------------
IdleScan ==
    /\ fileSlots = <<>>
    /\ columns = <<>>
    /\ tableHeader = [columnCount |-> 0, variableColumns |-> 0]
    /\ dataPages = <<>>
    /\ linkedPages = <<>>
    /\ scanState = "idle"
    /\ pageIdx = 0
    /\ slotIdx = 0
    /\ lastOffset = 0
    /\ parsedTable = <<>>
    /\ slotLog = <<>>
    /\ lines = <<>>

InitScan ==
    /\ \E cfg \in TableConfigs :
         /\ version = cfg.ver
         /\ columns = cfg.cols
         /\ \E slots \in SeqsUpTo(SlotSpecs(cfg), MaxSlots) :
              \E c \in Cuts(slots) : fileSlots = CutPages(slots, c)
    /\ pageSize = (IF version = 3 THEN PAGE_SIZE_V3 ELSE PAGE_SIZE_V4)
    /\ tableHeader = HeaderOf(columns)
    /\ dataPages = FilePagesOf(fileSlots, pageSize)
    /\ linkedPages = [k \in 1..MaxLinkedPages |-> FirstLinkedPage + k - 1]
    /\ scanState = "scanning"
    /\ pageIdx = 1
    /\ slotIdx = 1
    /\ lastOffset = 0
    /\ parsedTable = <<>>
    /\ slotLog = <<>>
    /\ lines = <<>>

\* A file whose pointers may also be stray: the records are well formed, and
\* the file has one more data page, which holds no record.
StraySlotSpecs(ver) ==
    [kind : SlotKinds \cup StrayKinds,
     rec : {IF ver = 3 THEN WellFormedV3(0) ELSE WellFormedV4(0)}]

WithEmptyPage(pages) ==
    [n \in DOMAIN pages \cup {EmptyDataPage} |->
        IF n = EmptyDataPage THEN [offsets |-> <<>>, tail |-> <<>>] ELSE pages[n]]

InitOverflow ==
    /\ version \in {3, 4}
    /\ columns = LayoutA
    /\ \E slots \in SeqsUpTo(StraySlotSpecs(version), MaxSlots) :
         \E c \in Cuts(slots) : fileSlots = CutPages(slots, c)
    /\ pageSize = (IF version = 3 THEN PAGE_SIZE_V3 ELSE PAGE_SIZE_V4)
    /\ tableHeader = HeaderOf(columns)
    /\ dataPages = WithEmptyPage(FilePagesOf(fileSlots, pageSize))
    /\ linkedPages = [k \in 1..MaxLinkedPages |-> FirstLinkedPage + k - 1]
    /\ scanState = "scanning"
    /\ pageIdx = 1
    /\ slotIdx = 1
    /\ lastOffset = 0
    /\ parsedTable = <<>>
    /\ slotLog = <<>>
    /\ lines = <<>>

\* A Jet 3 table with two variable-length columns and records longer than
\* 256 bytes, which carry a jump table of one entry.  The record: column
\* count, the Int8, FillerLength bytes of data, varLenCount, the offsets of
\* field 1 and field 0, the jump-table entry, the field count, the bitmap.
LayoutJ ==
    << Column("A", TypeInt8, TRUE, 0, 0), Column("B", TypeText, FALSE, 0, 1),
       Column("C", TypeText, FALSE, 0, 2) >>

FillerLength == 256

Filler == [q \in 1..FillerLength |-> 97 + (q % 20)]

RecordJ(off0, off1, vlc, jump, mask) ==
    <<3, 5>> \o Filler \o <<vlc, off1, off0, jump, 2, mask>>

\* Bound of the jump-table entry drawn
MaxJumpIndex == 2

LongRecords ==
    {RecordJ(o[1], o[2], o[3], jump, mask) :
        o \in {<<2, 4, 6>>, <<2, 2, 5>>}, jump \in 0..MaxJumpIndex \cup {255},
        mask \in 0..7}

\* The file holds one long record, on one of the linked pages
InitJump ==
    /\ version = 3
    /\ columns = LayoutJ
    /\ \E rec \in LongRecords : \E at \in 1..MaxLinkedPages :
         fileSlots = [k \in 1..MaxLinkedPages |->
                        IF k = at THEN <<[kind |-> "live", rec |-> rec]>>
                        ELSE <<>>]
    /\ pageSize = PAGE_SIZE_V3
    /\ tableHeader = HeaderOf(columns)
    /\ dataPages = FilePagesOf(fileSlots, pageSize)
    /\ linkedPages = [k \in 1..MaxLinkedPages |-> FirstLinkedPage + k - 1]
    /\ scanState = "scanning"
    /\ pageIdx = 1
    /\ slotIdx = 1
    /\ lastOffset = 0
    /\ parsedTable = <<>>
    /\ slotLog = <<>>
    /\ lines = <<>>

CurrentPage == dataPages[linkedPages[pageIdx]]
CurrentOffset == CurrentPage.offsets[slotIdx]

AtSlot ==
    /\ scanState = "scanning"
    /\ pageIdx <= Len(linkedPages)
    /\ slotIdx <= Len(CurrentPage.offsets)

LogEntry(kind, outcome, rec, ptr) ==
    [page |-> pageIdx, slot |-> slotIdx, kind |-> kind, outcome |-> outcome,
     rec |-> rec, ptr |-> ptr]

\* The end boundary a deleted slot leaves for the next live record (556)
DeletedBoundaryMutant(recOffset) == 0

DeletedBoundary(recOffset) == Low12(recOffset)

\* What parse does after parseRow(record)
AfterParseRow(kind, record, ptr) ==
    LET r == parseRow(record, parsedTable, columns, tableHeader, version)
    IN  /\ slotLog' = Append(slotLog, LogEntry(kind, r.outcome, record, ptr))
        /\ IF r.outcome = "error"
           THEN /\ scanState' = "error"
                /\ UNCHANGED <<parsedTable, slotIdx>>
           ELSE /\ parsedTable' = r.table
                /\ slotIdx' = slotIdx + 1
                /\ UNCHANGED scanState

scanDeletedSlot ==
    /\ AtSlot
    /\ HasBit(CurrentOffset, 32768)
    /\ lastOffset' = DeletedBoundary(CurrentOffset)
    /\ slotIdx' = slotIdx + 1
    /\ slotLog' = Append(slotLog, LogEntry("deleted", "none", <<>>, 0))
    /\ UNCHANGED <<fileSlots, columns, tableHeader, dataPages, linkedPages,
                   scanState, pageIdx, parsedTable, lines>>

scanOverflowSlot ==
    /\ AtSlot
    /\ ~HasBit(CurrentOffset, 32768)
    /\ HasBit(CurrentOffset, 16384)
    /\ LET recPtrOffset == Low12(CurrentOffset)
           buf == PageSlice(CurrentPage, pageSize, recPtrOffset, recPtrOffset + 4)
       IN  /\ lastOffset' = recPtrOffset
           /\ IF Len(buf) < 4
              \* getUint32 throws a RangeError
              THEN /\ scanState' = "error"
                   /\ slotLog' = Append(slotLog,
                                        LogEntry("overflow", "error", <<>>, 0))
                   /\ UNCHANGED <<parsedTable, slotIdx>>
              ELSE LET overflowRecPtr == buf[1] + 256 * buf[2] + 65536 * buf[3]
                                            + 16777216 * buf[4]
                       record == getOverflowRecord(overflowRecPtr)
                   IN  IF record.found
                       THEN AfterParseRow("overflow", record.rec, overflowRecPtr)
                       ELSE /\ slotLog' = Append(slotLog,
                                   LogEntry("overflow", "skipped", <<>>,
                                            overflowRecPtr))
                            /\ slotIdx' = slotIdx + 1
                            /\ UNCHANGED <<parsedTable, scanState>>
    /\ UNCHANGED <<fileSlots, columns, tableHeader, dataPages, linkedPages,
                   pageIdx, lines>>

scanInlineSlot ==
    /\ AtSlot
    /\ ~HasBit(CurrentOffset, 32768)
    /\ ~HasBit(CurrentOffset, 16384)
    /\ LET record == IF lastOffset = 0
                     THEN PageSlice(CurrentPage, pageSize, CurrentOffset, pageSize)
                     ELSE PageSlice(CurrentPage, pageSize, CurrentOffset, lastOffset)
       IN  AfterParseRow("inline", record, 0)
    /\ lastOffset' = CurrentOffset
    /\ UNCHANGED <<fileSlots, columns, tableHeader, dataPages, linkedPages,
                   pageIdx, lines>>

\* The outer loop of parse moves to the next linked page
scanNextPage ==
    /\ scanState = "scanning"
    /\ pageIdx <= Len(linkedPages)
    /\ slotIdx > Len(CurrentPage.offsets)
    /\ pageIdx' = pageIdx + 1
    /\ slotIdx' = 1
    /\ lastOffset' = 0
    /\ UNCHANGED <<fileSlots, columns, tableHeader, dataPages, linkedPages,
                   scanState, parsedTable, slotLog, lines>>

\* rowNumber of the line built from index i (1-based here, i + 1 in the code)
RowNumberOf(i) == i

\* parseTable: the lines built from the table parse returned
LinesOf(table) ==
    IF Len(table) = 0 THEN <<>>
    ELSE [i \in 1..Len(table[1].vals) |->
            [rowNumber |-> RowNumberOf(i),
             data |-> [k \in DOMAIN table |->
                         [field |-> table[k].name,
                          value |-> IF i <= Len(table[k].vals)
                                    THEN table[k].vals[i] ELSE Undefined]]]]

parseTable ==
    /\ scanState = "scanning"
    /\ pageIdx > Len(linkedPages)
    /\ scanState' = "returned"
    /\ lines' = LinesOf(parsedTable)
    /\ UNCHANGED <<fileSlots, columns, tableHeader, dataPages, linkedPages,
                   pageIdx, slotIdx, lastOffset, parsedTable, slotLog>>

\* ------------------------------------------------------------------------
\* Calls on a constructed parser: getTables, getVersion and parseTable
\* (index.ts 153-200).  The file has one table with data pages, rooted at
\* page TdefRoot and named "A" in the catalog; the name "B" is absent, or is
\* a second name of that table, or names a table without data pages, or a
\* page that is not a TDEF page.  parseTable builds a new AccessTable and
\* runs its parse, the scan above, to the end before it returns or throws.
\* ------------------------------------------------------------------------
\* Bound of the number of slots on the table's data page
MaxApiSlots == 2

ApiEmptyRoot == EmptyDataPage + 1
ApiCallNames == {"A", "B"}
ApiCatalogs ==
    {[n \in {"A"} |-> TdefRoot]}
        \cup {[n \in {"A", "B"} |-> IF n = "A" THEN TdefRoot ELSE id] :
                 id \in {TdefRoot, ApiEmptyRoot, DanglingPage}}

\* The slots of the table: well-formed records, one that parseRow drops and
\* one it throws on, deleted slots and pointers.
ApiSlotSpecs(ver) ==
    [kind : {"live"},
     rec : IF ver = 3
           THEN {WellFormedV3(0), RecordV3(<<97>>, 3, 1, 0, 0),
                 RecordV3(<<97>>, 3, 2, 2, 0)}
           ELSE {WellFormedV4(0), RecordV4(<<97, 0>>, 5, 3, 2, 0)}]
        \cup [kind : {"deleted", "overflow", "dangling"},
              rec : {IF ver = 3 THEN WellFormedV3(0) ELSE WellFormedV4(0)}]

NoOut == [op |-> "none", name |-> "", result |-> "", rows |-> <<>>,
          tables |-> {}, ver |-> 0]

IdleApi ==
    /\ apiState = "idle"
    /\ apiOut = NoOut
    /\ firstOut = <<>>

\* The parser after its constructor returned
InitApi ==
    /\ version \in {3, 4}
    /\ pageSize = (IF version = 3 THEN PAGE_SIZE_V3 ELSE PAGE_SIZE_V4)
    /\ magicOk = FALSE /\ jetVersion = 0 /\ dbLength = 0 /\ ctor = "idle"
    /\ pgIsTdef = [p \in {CatalogPage, TdefRoot, ApiEmptyRoot} |-> TRUE]
    /\ dataOwners = {CatalogPage, TdefRoot}
    /\ tablesWithData = {CatalogPage, TdefRoot}
    /\ catalog \in ApiCatalogs
    /\ catFields = TRUE
    /\ catNames = <<>> /\ catTypes = <<>> /\ catFlags = <<>> /\ catIds = <<>>
    /\ catState = "ready"
    /\ callName = ""
    /\ callResult = "none"
    /\ columns = LayoutA
    /\ tableHeader = HeaderOf(columns)
    /\ \E slots \in SeqsUpTo(ApiSlotSpecs(version), MaxApiSlots) :
         fileSlots = [k \in 1..MaxLinkedPages |-> IF k = 1 THEN slots ELSE <<>>]
    /\ dataPages = FilePagesOf(fileSlots, pageSize)
    /\ linkedPages = [k \in 1..MaxLinkedPages |-> FirstLinkedPage + k - 1]
    /\ scanState = "idle"
    /\ pageIdx = 0
    /\ slotIdx = 0
    /\ lastOffset = 0
    /\ parsedTable = <<>>
    /\ slotLog = <<>>
    /\ lines = <<>>
    /\ apiState = "ready"
    /\ apiOut = NoOut
    /\ firstOut = <<>>

\* this.parsedTable = {} of the AccessTable constructor (231)
NewAccumulatorMutant == parsedTable

NewAccumulator == <<>>

\* The outcome of a parseTable call that has finished
Finished(name, result, rows) ==
    [op |-> "parseTable", name |-> name, result |-> result, rows |-> rows,
     tables |-> {}, ver |-> 0]

Remember(name, out) ==
    IF name \in DOMAIN firstOut THEN firstOut
    ELSE [n \in DOMAIN firstOut \cup {name} |->
             IF n = name THEN out ELSE firstOut[n]]

apiFrame == UNCHANGED <<hdrVars, dateVars, tdefVars, colVars, pgIsTdef, dataOwners, catFields, catNames, catTypes, catFlags, catIds, tablesWithData, catalog, catState>>

getTablesCall ==
    /\ apiState = "ready"
    /\ apiOut' = [NoOut EXCEPT !.op = "getTables", !.tables = getTables]
    /\ UNCHANGED <<apiState, firstOut, callName, callResult, scanVars>>
    /\ apiFrame

getVersionCall ==
    /\ apiState = "ready"
    /\ apiOut' = [NoOut EXCEPT !.op = "getVersion", !.ver = getVersion]
    /\ UNCHANGED <<apiState, firstOut, callName, callResult, scanVars>>
    /\ apiFrame

\* parseTable(name) up to the first slot: the lookup of parseTableUnformatted
\* throws, or a new AccessTable is built for the table and its parse begins.
parseTableStart ==
    /\ apiState = "ready"
    /\ \E name \in ApiCallNames :
         LET found == TableLookup(name) IN
         /\ callName' = name
         /\ callResult' = found
         /\ IF found = "Parsed"
            THEN /\ apiState' = "busy"
                 /\ scanState' = "scanning"
                 /\ pageIdx' = 1
                 /\ slotIdx' = 1
                 /\ lastOffset' = 0
                 /\ parsedTable' = NewAccumulator
                 /\ slotLog' = <<>>
                 /\ lines' = <<>>
                 /\ UNCHANGED <<apiOut, firstOut>>
            ELSE /\ apiOut' = Finished(name, found, <<>>)
                 /\ firstOut' = Remember(name, Finished(name, found, <<>>))
                 /\ UNCHANGED <<apiState, scanState, pageIdx, slotIdx,
                                lastOffset, parsedTable, slotLog, lines>>
    /\ UNCHANGED <<fileSlots, columns, tableHeader, dataPages, linkedPages>>
    /\ apiFrame

\* parseTable returns the lines built from what parse returned
parseTableReturn ==
    /\ apiState = "busy"
    /\ parseTable
    /\ apiState' = "ready"
    /\ apiOut' = Finished(callName, "Parsed", lines')
    /\ firstOut' = Remember(callName, Finished(callName, "Parsed", lines'))
    /\ UNCHANGED <<callName, callResult>>
    /\ apiFrame

\* an error thrown inside parse leaves parseTable
parseTableThrow ==
    /\ apiState = "busy"
    /\ scanState = "error"
    /\ apiState' = "ready"
    /\ apiOut' = Finished(callName, "RowError", <<>>)
    /\ firstOut' = Remember(callName, Finished(callName, "RowError", <<>>))
    /\ UNCHANGED <<callName, callResult, scanVars>>
    /\ apiFrame

\* ------------------------------------------------------------------------
\* Specifications
\* ------------------------------------------------------------------------
NextHeader ==
    \/ parseFileHeader /\ UNCHANGED <<dateVars, tdefVars, catVars, scanVars, colVars, apiVars>>
    \/ categorizePages /\ UNCHANGED <<dateVars, tdefVars, catVars, scanVars, colVars, apiVars>>

InitSpecHeader == InitHeader /\ IdleDate /\ IdleTdef /\ IdleCat /\ IdleScan /\ IdleCols /\ IdleApi

SpecHeader == InitSpecHeader /\ [][NextHeader]_vars

NextDate == parseTypeDateTime /\ UNCHANGED <<hdrVars, tdefVars, catVars, scanVars, colVars, apiVars>>

InitSpecDate == InitDate /\ IdleHdr /\ IdleTdef /\ IdleCat /\ IdleScan /\ IdleCols /\ IdleApi

NextTdef ==
    \/ getTableColumnsStart /\ UNCHANGED <<hdrVars, dateVars, catVars, scanVars, colVars, apiVars>>
    \/ mergeTableDataLoad /\ UNCHANGED <<hdrVars, dateVars, catVars, scanVars, colVars, apiVars>>

InitSpecTdef == InitTdef /\ IdleHdr /\ IdleDate /\ IdleCat /\ IdleScan /\ IdleCols /\ IdleApi

SpecTdef == InitSpecTdef /\ [][NextTdef]_vars

NextCatalog ==
    \/ linkTablesToData /\ UNCHANGED <<hdrVars, dateVars, tdefVars, scanVars, colVars, apiVars>>
    \/ parseCatalog /\ UNCHANGED <<hdrVars, dateVars, tdefVars, scanVars, colVars, apiVars>>
    \/ parseTableUnformatted /\ UNCHANGED <<hdrVars, dateVars, tdefVars, scanVars, colVars, apiVars>>

InitSpecCatalog == InitCat /\ IdleHdr /\ IdleDate /\ IdleTdef /\ IdleScan /\ IdleCols /\ IdleApi

SpecCatalog == InitSpecCatalog /\ [][NextCatalog]_vars

scanFrame == UNCHANGED <<hdrVars, dateVars, tdefVars, catVars, colVars, apiVars>>

NextScan ==
    \/ scanDeletedSlot /\ scanFrame
    \/ scanOverflowSlot /\ scanFrame
    \/ scanInlineSlot /\ scanFrame
    \/ scanNextPage /\ scanFrame
    \/ parseTable /\ scanFrame

InitSpecScan == InitScan /\ IdleHdrInput /\ IdleDate /\ IdleTdef /\ IdleCat /\ IdleCols /\ IdleApi

SpecScan == InitSpecScan /\ [][NextScan]_vars

SpecDate == InitSpecDate /\ [][NextDate]_vars

NextCols ==
    getTableColumnsKeying /\ UNCHANGED <<hdrVars, dateVars, tdefVars, catVars, scanVars, apiVars>>

InitSpecCols == InitCols /\ IdleHdr /\ IdleDate /\ IdleTdef /\ IdleCat /\ IdleScan /\ IdleApi

SpecCols == InitSpecCols /\ [][NextCols]_vars

\* The scan of a file of long Jet 3 records, all of them inline
NextJump ==
    \/ scanInlineSlot /\ scanFrame
    \/ scanNextPage /\ scanFrame
    \/ parseTable /\ scanFrame

InitSpecJump == InitJump /\ IdleHdrInput /\ IdleDate /\ IdleTdef /\ IdleCat /\ IdleCols /\ IdleApi

SpecJump == InitSpecJump /\ [][NextJump]_vars

\* Calls on a constructed parser
NextApi ==
    \/ getTablesCall
    \/ getVersionCall
    \/ parseTableStart
    \/ scanDeletedSlot /\ scanFrame
    \/ scanOverflowSlot /\ scanFrame
    \/ scanInlineSlot /\ scanFrame
    \/ scanNextPage /\ scanFrame
    \/ parseTableReturn
    \/ parseTableThrow

InitSpecApi == InitApi /\ IdleDate /\ IdleTdef /\ IdleCols

SpecApi == InitSpecApi /\ [][NextApi]_vars

\* The scan of a file with stray pointers
InitSpecOverflow == InitOverflow /\ IdleHdrInput /\ IdleDate /\ IdleTdef /\ IdleCat /\ IdleCols /\ IdleApi

SpecOverflow == InitSpecOverflow /\ [][NextScan]_vars

\* ------------------------------------------------------------------------
\* C7: the version byte 0 gives version 3 with page size 0x0800, the bytes
\* 1, 2, 3 give versions 4, 5, 2010 with page size 0x1000, every other byte
\* makes construction fail, and getVersion is always one of 3, 4, 5, 2010.
\* ------------------------------------------------------------------------
C7_VersionMapping ==
    /\ getVersion \in ALL_VERSIONS
    /\ ctor \in {"header", "pages"} =>
         \/ jetVersion = 0 /\ version = 3 /\ pageSize = 2048
         \/ jetVersion = 1 /\ version = 4 /\ pageSize = 4096
         \/ jetVersion = 2 /\ version = 5 /\ pageSize = 4096
         \/ jetVersion = 3 /\ version = 2010 /\ pageSize = 4096
    /\ (ctor # "new" /\ jetVersion \notin 0..3) => ctor = "failed"

C7_Witness == ctor = "pages" /\ jetVersion = 2 /\ version = 5

\* ------------------------------------------------------------------------
\* C8 as stated: 0.0 days decodes to 1899-12-30T12:00:00.000Z and 1.5 days
\* to 1899-12-31T00:00:00.000Z.
\* ------------------------------------------------------------------------
C8_AsStated ==
    /\ (dateDone /\ dateIn = 0) =>
         dateOut = [year |-> 1899, month |-> 12, day |-> 30,
                    hours |-> 12, minutes |-> 0, seconds |-> 0, ms |-> 0]
    /\ (dateDone /\ 2 * dateIn = 3 * SecondsPerDay) =>
         dateOut = [year |-> 1899, month |-> 12, day |-> 31,
                    hours |-> 0, minutes |-> 0, seconds |-> 0, ms |-> 0]

\* C8 amended: the integer part is added as days to the date 1899-12-30 and
\* the fractional part replaces the time of day, so 0.0 days decodes to
\* 1899-12-30T00:00:00.000Z and 1.5 days to 1899-12-31T12:00:00.000Z; for a
\* non-negative input the result is the instant that many seconds after
\* 1899-12-30T00:00:00Z.
C8_DateTimeSetsTimeOfDay ==
    dateDone =>
        /\ dateIn = 0 =>
             dateOut = [year |-> 1899, month |-> 12, day |-> 30,
                        hours |-> 0, minutes |-> 0, seconds |-> 0, ms |-> 0]
        /\ 2 * dateIn = 3 * SecondsPerDay =>
             dateOut = [year |-> 1899, month |-> 12, day |-> 31,
                        hours |-> 12, minutes |-> 0, seconds |-> 0, ms |-> 0]
        /\ dateIn >= 0 => dateOut = toISOString(dateIn)

C8_Witness ==
    /\ 2 * dateIn = 3 * SecondsPerDay
    /\ dateDone
    /\ dateOut.hours = 12

\* ------------------------------------------------------------------------
\* C9: following the TDEF continuation chain ends after a number of page
\* loads bounded by the number of pages in the buffer, also when the
\* nextPagePtr links form a cycle or a page points to itself.
\* ------------------------------------------------------------------------
C9_AsStated == mergeSteps <= FilePages

\* ------------------------------------------------------------------------
\* C3: for every entry position k of a catalog whose string names are
\* pairwise distinct, Name[k] is listed by getTables with value Id[k] iff
\* Type[k] = 1 and Flags[k] = 0, all four read at the same position k; so no
\* listed table has a system-table flag set.
\* ------------------------------------------------------------------------
DistinctCatNames ==
    \A j, k \in DOMAIN catNames :
        (j # k /\ catNames[j].str /\ catNames[k].str) => catNames[j].v # catNames[k].v

C3_AsStated ==
    (catState = "ready" /\ DistinctCatNames) =>
        \A k \in DOMAIN catNames :
            catNames[k].str =>
                /\ (catNames[k].v \in getTables /\ catalog[catNames[k].v] = catIds[k])
                      <=> (catTypes[k] = 1 /\ catFlags[k] = 0)
                /\ catNames[k].v \in getTables => catFlags[k] \notin SYSTEM_TABLE_FLAGS

\* ------------------------------------------------------------------------
\* C4: parseTable(name) fails with an unknown-table error when name is not
\* in the catalog, and with an empty-table error when name is in the catalog
\* and its root page is a table-definition page that no data page names as
\* owner; in neither case does it return rows.
\* ------------------------------------------------------------------------
C4_LookupErrors ==
    callResult # "none" =>
        /\ callName \notin getTables => callResult = "UnknownTable"
        /\ (/\ callName \in getTables
            /\ pgIsTdef[catalog[callName]]
            /\ catalog[callName] \notin dataOwners) => callResult = "EmptyTable"

C4_Witness ==
    /\ callResult = "EmptyTable"
    /\ callName \in getTables
    /\ catalog[callName] \notin dataOwners
\* ------------------------------------------------------------------------
\* Notions the claims about the scan share
\* ------------------------------------------------------------------------
\* Bit id of the trailing null bitmap of a record, LSB-first across bytes
BitmapBit(rec, id) ==
    LET nullBytes == (tableHeader.columnCount + 7) \div 8
    IN  (rec[Len(rec) - nullBytes + 1 + (id \div 8)] \div (2 ^ (id % 8))) % 2 = 1

ValuesOf(colName) ==
    IF \E k \in DOMAIN parsedTable : parsedTable[k].name = colName
    THEN parsedTable[CHOOSE k \in DOMAIN parsedTable :
                        parsedTable[k].name = colName].vals
    ELSE <<>>

LogCount(outcomes) ==
    Cardinality({k \in DOMAIN slotLog : slotLog[k].outcome \in outcomes})

Alive == scanState \in {"scanning", "returned"}

\* The slot the file was laid out from, for a log entry
FileSlotOf(entry) == fileSlots[entry.page][entry.slot]

\* ------------------------------------------------------------------------
\* C1: for every parsed row and every column c, the value emitted for c is
\* null if and only if bit c.columnID of the record's trailing null bitmap
\* is clear.
\* ------------------------------------------------------------------------
C1_AsStated ==
    (Alive /\ slotLog # <<>> /\ slotLog[Len(slotLog)].outcome = "row") =>
        \A k \in DOMAIN columns :
            LET vals == ValuesOf(columns[k].colNameStr)
            IN  /\ vals # <<>>
                /\ (vals[Len(vals)] = Null)
                      <=> ~BitmapBit(slotLog[Len(slotLog)].rec, columns[k].columnID)

\* ------------------------------------------------------------------------
\* C2: after parse has processed any sequence of records, all column arrays
\* have the same length, the number of rows parseTable returns; a dropped
\* record contributes a value to no column.
\* ------------------------------------------------------------------------
C2_AsStated ==
    Alive =>
        /\ \A k \in DOMAIN parsedTable :
              Len(parsedTable[k].vals) = LogCount({"row"})
        /\ scanState = "returned" => Len(lines) = LogCount({"row"})

\* ------------------------------------------------------------------------
\* C5: a slot whose offset has bit 0x8000 set produces no row and only moves
\* the end boundary to its low 12 bits; the rows parseTable returns are
\* numbered 1..n consecutively in scan order, and deleted slots are not
\* numbered.
\* ------------------------------------------------------------------------
C5_DeletedStep ==
    (AtSlot /\ (CurrentOffset \div 32768) % 2 = 1) =>
        /\ parsedTable' = parsedTable
        /\ lines' = lines
        /\ scanState' = "scanning"
        /\ lastOffset' = CurrentOffset % 4096

C5_Numbering ==
    /\ \A j, k \in DOMAIN slotLog :
          j < k => \/ slotLog[j].page < slotLog[k].page
                   \/ /\ slotLog[j].page = slotLog[k].page
                      /\ slotLog[j].slot < slotLog[k].slot
    /\ \A k \in DOMAIN slotLog :
          FileSlotOf(slotLog[k]).kind = "deleted" => slotLog[k].outcome = "none"
    /\ scanState = "returned" =>
          /\ \A i \in DOMAIN lines : lines[i].rowNumber = i
          /\ Len(lines) <= LogCount({"row", "dropped"})

C5_DeletedSlotsNotNumbered == [][C5_DeletedStep]_vars /\ []C5_Numbering

C5_Witness ==
    /\ scanState = "returned"
    /\ Len(slotLog) = 2
    /\ slotLog[1].outcome = "none"
    /\ slotLog[2].kind = "inline"
    /\ slotLog[2].outcome = "row"
    /\ slotLog[2].rec = FileSlotOf(slotLog[2]).rec
    /\ Len(lines) = 1
    /\ lines[1].rowNumber = 1

\* ------------------------------------------------------------------------
\* C6 as stated: every slot whose offset has bit 0x4000 set (and 0x8000
\* clear) has its pointed-to record fetched and parsed as a row.
\* ------------------------------------------------------------------------
C6_AsStated ==
    \A k \in DOMAIN slotLog :
        slotLog[k].kind = "overflow" => slotLog[k].outcome # "skipped"

\* C6 amended: for such a slot the 4 bytes at (offset & 0x0FFF) are read as
\* a 32-bit LE pointer (page = ptr >> 8, slot = ptr & 0xFF); when that page
\* is a data page the record stored at that slot is fetched and handed to
\* parseRow exactly once, and when it is not a data page the slot yields no
\* row, no column changes, and the scan goes on with the next slot.
C6_OverflowStep ==
    (AtSlot /\ (CurrentOffset \div 32768) % 2 = 0
            /\ (CurrentOffset \div 16384) % 2 = 1) =>
        LET spec  == fileSlots[pageIdx][slotIdx]
            entry == slotLog'[Len(slotLog')]
        IN  /\ Len(slotLog') = Len(slotLog) + 1
            /\ entry.kind = "overflow"
            /\ lastOffset' = CurrentOffset % 4096
            /\ IF spec.kind = "dangling"
               THEN /\ entry.ptr \div 256 = DanglingPage
                    /\ entry.outcome = "skipped"
                    /\ parsedTable' = parsedTable
                    /\ scanState' = "scanning"
                    /\ slotIdx' = slotIdx + 1
               ELSE /\ entry.ptr \div 256 = OverflowPage
                    /\ entry.outcome \in {"row", "dropped", "error"}
                    /\ entry.rec = spec.rec

C6_OverflowRowWhenDataPage == [][C6_OverflowStep]_vars

C6_Witness ==
    /\ scanState = "returned"
    /\ \E k \in DOMAIN slotLog :
          /\ slotLog[k].kind = "overflow"
          /\ slotLog[k].outcome = "row"
          /\ slotLog[k].ptr \div 256 = OverflowPage
          /\ slotLog[k].rec = FileSlotOf(slotLog[k]).rec
    /\ \E k \in DOMAIN slotLog :
          /\ slotLog[k].kind = "overflow"
          /\ slotLog[k].outcome = "skipped"
    /\ Len(lines) = 1

\* ------------------------------------------------------------------------
\* C10: on Jet 3, a record whose parsed field count differs from
\* variableColumns and whose reversed record does not hold the encoding of
\* variableColumns in its first 10 bytes is dropped, and no error comes out
\* of the scan.
\* ------------------------------------------------------------------------
\* rec has a field count other than variableColumns, and the low byte of
\* variableColumns is nowhere in the first 10 bytes of the reversed record
\* behind the null bitmap
CountNotFound(rec) ==
    LET nullBytes == (tableHeader.columnCount + 7) \div 8
        n         == Len(rec) - nullBytes
    IN  /\ n >= 3
        /\ rec[n] # tableHeader.variableColumns
        /\ n >= 2 + rec[n]
        /\ \A k \in 1..n :
              (n - k < 10) => rec[k] # tableHeader.variableColumns % 256

C10_AsStated ==
    version = 3 =>
        \A k \in DOMAIN slotLog :
            (slotLog[k].outcome # "none" /\ slotLog[k].outcome # "skipped"
                /\ CountNotFound(slotLog[k].rec))
              => slotLog[k].outcome = "dropped"

\* ------------------------------------------------------------------------
\* C11: getOverflowRecord(ptr) returns nothing, and never a byte range, when
\* the page ptr >> 8 is not a data page and when the slot ptr & 0xFF is
\* greater than or equal to the number of record offsets of that page; the
\* bytes it returns are those from the slot's offset (masked with 0x0FFF) to
\* the previous slot's masked offset, or to the page end for slot 0.
\* ------------------------------------------------------------------------
C11_AsStated ==
    \A k \in DOMAIN slotLog :
        slotLog[k].kind = "overflow" =>
            LET pageNum == slotLog[k].ptr \div 256
                slot    == slotLog[k].ptr % 256
                fetched == slotLog[k].outcome # "skipped"
            IN  /\ (pageNum \notin DOMAIN dataPages
                      \/ slot >= Len(dataPages[pageNum].offsets)) => ~fetched
                /\ fetched =>
                      LET offsets == dataPages[pageNum].offsets
                      IN  slotLog[k].rec =
                            PageSlice(dataPages[pageNum], pageSize,
                                      offsets[slot + 1] % 4096,
                                      IF slot = 0 THEN pageSize
                                      ELSE offsets[slot] % 4096)

\* ------------------------------------------------------------------------
\* C12: when keying the descriptors by columnIndex - minIndex produces
\* collisions, the map is keyed by columnID instead: with pairwise distinct
\* columnIDs and as many descriptors as columnCount, getTableColumns succeeds
\* with a map whose keys are exactly the columnIDs; it fails only if neither
\* keying yields exactly columnCount entries.
\* ------------------------------------------------------------------------
IndexKeys == {colDescs[i].columnIndex : i \in DOMAIN colDescs}
IdKeys == {colDescs[i].columnID : i \in DOMAIN colDescs}

C12_AsStated ==
    colState \in {"keyed", "error"} =>
        /\ (/\ Cardinality(IndexKeys) < Len(colDescs)
             /\ Cardinality(IdKeys) = Len(colDescs)
             /\ Len(colDescs) = colCount)
               => /\ colState = "keyed"
                  /\ DOMAIN columnDict = IdKeys
        /\ colState = "error"
               => /\ Cardinality(IndexKeys) # colCount
                  /\ Cardinality(IdKeys) # colCount

\* ------------------------------------------------------------------------
\* C13: on Jet 3 the bias added to the start and end offsets of the
\* variable-length field at position i is 0x100 times the number of
\* jump-table entries <= i, for every record and every pattern of null
\* columns, also when the column at a listed index is itself null.
\* ------------------------------------------------------------------------
StatedBias(jumpTable, i) ==
    256 * Cardinality({j \in DOMAIN jumpTable : jumpTable[j] <= i})

\* The value of the field at position i (0-based) decoded with the stated bias
StatedValue(rec, meta, column, i) ==
    LET offsets  == meta.variableLengthFieldOffsets
        relStart == offsets[i + 1]
        relEnd   == IF i + 1 = Len(offsets) THEN meta.varLenCount
                    ELSE offsets[i + 2]
        bias     == StatedBias(meta.variableLengthJumpTable, i)
    IN  IF relStart = relEnd THEN EmptyString
        ELSE parseType(column.type, Slice(rec, relStart + bias, relEnd + bias), 3)

C13_AsStated ==
    (version = 3 /\ Alive /\ slotLog # <<>>
        /\ slotLog[Len(slotLog)].outcome = "row") =>
        LET rec       == slotLog[Len(slotLog)].rec
            nullBytes == (tableHeader.columnCount + 7) \div 8
            nullTable == NullTableOf(SliceFrom(rec, Len(rec) - nullBytes))
            varCols   == VariableColumns(columns)
            md        == parseDynamicLengthRecordsMetadata(Reverse(rec), rec,
                             nullBytes, tableHeader, 3)
        IN  \A k \in DOMAIN varCols :
                LET vals == ValuesOf(varCols[k].colNameStr)
                IN  (~IsNullColumn(varCols[k], nullTable)
                        /\ k <= Len(md.meta.variableLengthFieldOffsets))
                      => /\ vals # <<>>
                         /\ vals[Len(vals)] = StatedValue(rec, md.meta, varCols[k], k - 1)

\* ------------------------------------------------------------------------
\* C14: after construction, any sequence of getTables, getVersion and
\* parseTable calls, successful or failing, leaves the parser's version, page
\* size, catalog, page maps and the data pages linked to each table
\* unchanged; two parseTable calls with the same name return equal rows, and
\* each call starts from an empty accumulator.
\* ------------------------------------------------------------------------
C14_Frame ==
    UNCHANGED <<version, pageSize, catalog, pgIsTdef, dataPages, dataOwners,
                tablesWithData, linkedPages>>

C14_FreshStart ==
    (apiState = "ready" /\ apiState' = "busy") => parsedTable' = <<>>

C14_RepeatEqual ==
    (apiState = "ready" /\ apiOut.op = "parseTable") =>
        /\ apiOut.name \in DOMAIN firstOut
        /\ apiOut = firstOut[apiOut.name]

C14_CallsLeaveParserUnchanged ==
    [][C14_Frame /\ C14_FreshStart]_vars /\ []C14_RepeatEqual

\* a second parseTable call of a name, made after a getTables call, at the
\* end of its scan with the row the first call returned
C14_Witness ==
    /\ apiState = "busy"
    /\ apiOut.op = "getTables"
    /\ firstOut # <<>>
    /\ callName \in DOMAIN firstOut
    /\ firstOut[callName].result = "Parsed"
    /\ Len(firstOut[callName].rows) = 1
    /\ scanState = "scanning"
    /\ pageIdx > Len(linkedPages)
    /\ LinesOf(parsedTable) = firstOut[callName].rows
====
